---- MODULE Spec2Model ----
(***************************************************************************)
(* The SHA-256 hash-chain program of src/src/main.rs, together with the    *)
(* programs that write its input file (src/src/bin/preprocess.rs,          *)
(* prepare_input of src/src/main.rs, and src/build.rs).                    *)
(*                                                                         *)
(* Numbers.  TLC's integers are 32 bits wide and signed, so no u32 or u64  *)
(* of the program is held in one TLC integer:                              *)
(*   - a byte is an integer 0..255;                                        *)
(*   - a u32 is a pair <<hi, lo>> of 16-bit halves, value hi*2^16 + lo;    *)
(*   - a u64 is its 8 base-256 digits, most significant first, value       *)
(*     d[1]*256^7 + ... + d[8].                                            *)
(***************************************************************************)
EXTENDS Integers, Sequences, FiniteSets, TLC

(***************************************************************************)
(* Bit operations on bytes and on 16-bit halves.                           *)
(***************************************************************************)
RECURSIVE BitXor(_, _, _)
BitXor(a, b, bits) ==
  IF bits = 0 THEN 0
  ELSE (((a % 2) + (b % 2)) % 2) + 2 * BitXor(a \div 2, b \div 2, bits - 1)

RECURSIVE BitAnd(_, _, _)
BitAnd(a, b, bits) ==
  IF bits = 0 THEN 0
  ELSE ((a % 2) * (b % 2)) + 2 * BitAnd(a \div 2, b \div 2, bits - 1)

XorByte == [a \in 0..255 |-> [b \in 0..255 |-> BitXor(a, b, 8)]]

AndByte == [a \in 0..255 |-> [b \in 0..255 |-> BitAnd(a, b, 8)]]

Xor16(a, b) ==
  XorByte[a \div 256][b \div 256] * 256 + XorByte[a % 256][b % 256]

And16(a, b) ==
  AndByte[a \div 256][b \div 256] * 256 + AndByte[a % 256][b % 256]

(***************************************************************************)
(* u32 words as <<hi, lo>>.                                                *)
(***************************************************************************)
WXor(x, y) == <<Xor16(x[1], y[1]), Xor16(x[2], y[2])>>

WAnd(x, y) == <<And16(x[1], y[1]), And16(x[2], y[2])>>

WNot(x) == <<65535 - x[1], 65535 - x[2]>>

\* wrapping_add of two u32
WAdd(x, y) ==
  LET lo == x[2] + y[2]
      hi == x[1] + y[1] + (lo \div 65536)
  IN  <<hi % 65536, lo % 65536>>

\* rotate_right by k, 0 < k < 32
WRotr(x, k) ==
  LET s == IF k >= 16 THEN <<x[2], x[1]>> ELSE x
      r == k % 16
  IN  IF r = 0 THEN s
      ELSE <<(s[1] \div (2^r)) + (s[2] % (2^r)) * (2^(16 - r)),
             (s[2] \div (2^r)) + (s[1] % (2^r)) * (2^(16 - r))>>

\* logical shift right by k, 0 < k < 16
WShr(x, k) ==
  <<x[1] \div (2^k), (x[2] \div (2^k)) + (x[1] % (2^k)) * (2^(16 - k))>>

(***************************************************************************)
(* SHA-256 (FIPS 180-4) of a 32-byte message: one 64-byte block.           *)
(***************************************************************************)
\* round constants
K256 ==
  <<
     <<17034, 12184>>, <<28983, 17553>>, <<46528, 64463>>, <<59829, 56229>>,
     <<14678, 49755>>, <<23025, 4593>>, <<37439, 33444>>, <<43804, 24277>>,
     <<55303, 43672>>, <<4739, 23297>>, <<9265, 34238>>, <<21772, 32195>>,
     <<29374, 23924>>, <<32990, 45566>>, <<39900, 1703>>, <<49563, 61812>>,
     <<58523, 27073>>, <<61374, 18310>>, <<4033, 40390>>, <<9228, 41420>>,
     <<11753, 11375>>, <<19060, 33962>>, <<23728, 43484>>, <<30457, 35034>>,
     <<38974, 20818>>, <<43057, 50797>>, <<45059, 10184>>, <<48985, 32711>>,
     <<50912, 3059>>, <<54695, 37191>>, <<1738, 25425>>, <<5161, 10599>>,
     <<10167, 2693>>, <<11803, 8504>>, <<19756, 28156>>, <<21304, 3347>>,
     <<25866, 29524>>, <<30314, 2747>>, <<33218, 51502>>, <<37490, 11397>>,
     <<41663, 59553>>, <<43034, 26187>>, <<49739, 35696>>, <<51052, 20899>>,
     <<53650, 59417>>, <<54937, 1572>>, <<62478, 13701>>, <<4202, 41072>>,
     <<6564, 49430>>, <<7735, 27656>>, <<10056, 30540>>, <<13488, 48309>>,
     <<14620, 3251>>, <<20184, 43594>>, <<23452, 51791>>, <<26670, 28659>>,
     <<29839, 33518>>, <<30885, 25455>>, <<33992, 30740>>, <<36039, 520>>,
     <<37054, 65530>>, <<42064, 27883>>, <<48889, 41975>>, <<50801, 30962>>
  >>

\* initial hash value
H256_256 ==
  <<
     <<27145, 58983>>, <<47975, 44677>>, <<15470, 62322>>, <<42319, 62778>>,
     <<20750, 21119>>, <<39685, 26764>>, <<8067, 55723>>, <<23520, 52505>>
  >>

Ch(x, y, z) == WXor(WAnd(x, y), WAnd(WNot(x), z))

Maj(x, y, z) == WXor(WXor(WAnd(x, y), WAnd(x, z)), WAnd(y, z))

BigSigma0(x) == WXor(WXor(WRotr(x, 2), WRotr(x, 13)), WRotr(x, 22))

BigSigma1(x) == WXor(WXor(WRotr(x, 6), WRotr(x, 11)), WRotr(x, 25))

SmallSigma0(x) == WXor(WXor(WRotr(x, 7), WRotr(x, 18)), WShr(x, 3))

SmallSigma1(x) == WXor(WXor(WRotr(x, 17), WRotr(x, 19)), WShr(x, 10))

\* the padded block of a 32-byte message: the message, 0x80, zeros, and the
\* message length in bits (256) as a big-endian u64
PadBlock(msg) ==
  msg \o <<128>> \o [j \in 1..29 |-> 0] \o <<1, 0>>

\* the 16 big-endian words of a 64-byte block
BlockWords(block) ==
  [t \in 1..16 |-> <<block[4 * t - 3] * 256 + block[4 * t - 2],
                     block[4 * t - 1] * 256 + block[4 * t]>>]

\* the message schedule, extended from 16 to 64 words
RECURSIVE Schedule(_)
Schedule(w) ==
  IF Len(w) >= 64 THEN w
  ELSE LET t == Len(w) + 1
           next == WAdd(WAdd(SmallSigma1(w[t - 2]), w[t - 7]),
                        WAdd(SmallSigma0(w[t - 15]), w[t - 16]))
       IN  Schedule(Append(w, next))

\* one round of the compression function on working variables s = a..h,
\* with kw the round's constant plus its schedule word
Round(s, kw) ==
  LET t1 == WAdd(WAdd(WAdd(s[8], BigSigma1(s[5])), Ch(s[5], s[6], s[7])), kw)
      t2 == WAdd(BigSigma0(s[1]), Maj(s[1], s[2], s[3]))
  IN  <<WAdd(t1, t2), s[1], s[2], s[3], WAdd(s[4], t1), s[5], s[6], s[7]>>

\* rounds t..64 (Len(s) is read first so that each round is evaluated before
\* the next one starts)
RECURSIVE Rounds(_, _, _)
Rounds(t, s, w) ==
  IF Len(s) # 8 \/ t > 64 THEN s
  ELSE Rounds(t + 1, Round(s, WAdd(K256[t], w[t])), w)

\* the 4 big-endian bytes of a word
WordBytes(x) == <<x[1] \div 256, x[1] % 256, x[2] \div 256, x[2] % 256>>

\* the big-endian bytes of 8 words
WordsToBytes(ws) ==
  WordBytes(ws[1]) \o WordBytes(ws[2]) \o WordBytes(ws[3]) \o WordBytes(ws[4])
    \o WordBytes(ws[5]) \o WordBytes(ws[6]) \o WordBytes(ws[7]) \o WordBytes(ws[8])

\* Sha256::new(); update(msg); finalize() for a 32-byte msg
Sha256(msg) ==
  LET w == Schedule(BlockWords(PadBlock(msg)))
      s == Rounds(1, H256_256, w)
  IN  WordsToBytes(<<WAdd(H256_256[1], s[1]), WAdd(H256_256[2], s[2]),
                     WAdd(H256_256[3], s[3]), WAdd(H256_256[4], s[4]),
                     WAdd(H256_256[5], s[5]), WAdd(H256_256[6], s[6]),
                     WAdd(H256_256[7], s[7]), WAdd(H256_256[8], s[8])>>)

(***************************************************************************)
(* Rust slices and u64 values.                                             *)
(***************************************************************************)
\* buf[a..b] is in bounds; otherwise the indexing panics
SliceOk(buf, a, b) == a <= b /\ b <= Len(buf)

\* buf[a..b], bytes a..b-1 counted from 0
Slice(buf, a, b) == SubSeq(buf, a + 1, b)

\* the u64 with value v, for 0 <= v < 2^31
ToU64(v) == [d \in 1..8 |-> IF d <= 4 THEN 0 ELSE (v \div (256^(8 - d))) % 256]

\* a < b on u64 values
U64Lt(a, b) ==
  \E d \in 1..8 : a[d] < b[d] /\ \A e \in 1..(d - 1) : a[e] = b[e]

\* fault: the count read as big-endian
FromBeBytes(b) == [d \in 1..8 |-> b[d]]

\* u64::from_le_bytes: byte j (from 0) has weight 256^j
FromLeBytes(b) == [d \in 1..8 |-> b[9 - d]]

\* fault: the count written as big-endian
ToBeBytes(v) == [j \in 1..8 |-> v[j]]

\* u64::to_le_bytes
ToLeBytes(v) == [j \in 1..8 |-> v[9 - j]]

\* Vec::resize(len, fill): truncate, or pad at the end with fill
Resize(v, len, fill) ==
  IF Len(v) >= len THEN SubSeq(v, 1, len)
  ELSE v \o [j \in 1..(len - Len(v)) |-> fill]

\* fault: the output word read as little-endian
ReadU32LE(buf, idx) ==
  <<buf[4 * idx + 4] * 256 + buf[4 * idx + 3],
    buf[4 * idx + 2] * 256 + buf[4 * idx + 1]>>

\* byteorder::BigEndian::read_u32(&buf[idx * 4..idx * 4 + 4])
ReadU32BE(buf, idx) ==
  <<buf[4 * idx + 1] * 256 + buf[4 * idx + 2],
    buf[4 * idx + 3] * 256 + buf[4 * idx + 4]>>

(***************************************************************************)
(* Program constants.                                                      *)
(***************************************************************************)
HashLen == 32

OutWords == 8

BuildN == 5

BuildSecretByte == 42

(***************************************************************************)
(* Bounds of the model and the inputs it draws.                            *)
(***************************************************************************)
\* the hash loop is followed for at most MaxIter iterations
MaxIter == 5

\* an input file holds at most MaxExtra bytes after offset 40
MaxExtra == 2

\* the longest secret string of input.json, in bytes
MaxSecretLen == 34

Zero32 == [j \in 1..32 |-> 0]

Ones32 == [j \in 1..32 |-> 255]

Ramp32 == [j \in 1..32 |-> 16 + j]

U64Max == [d \in 1..8 |-> 255]

U64Mixed == <<1, 2, 3, 4, 5, 6, 7, 8>>

Extras == { [j \in 1..e |-> 200 + j] : e \in 0..MaxExtra }

\* count bytes and seed of the files of 40 bytes and more: the counts 0..3,
\* and counts above MaxIter
SmallHeads ==
  { ToLeBytes(ToU64(0)) \o Zero32, ToLeBytes(ToU64(0)) \o Ones32,
    ToLeBytes(ToU64(0)) \o Ramp32, ToLeBytes(ToU64(1)) \o Ones32,
    ToLeBytes(ToU64(2)) \o Ramp32, ToLeBytes(ToU64(3)) \o Zero32 }

BigHeads ==
  { ToLeBytes(ToU64(258)) \o Ones32 \o <<201>>, ToLeBytes(U64Max) \o Zero32,
    ToLeBytes(U64Mixed) \o Ramp32 }

FullFiles == { h \o x : h \in SmallHeads, x \in Extras } \cup BigHeads

\* every length 0..39, as the prefixes of two files
ShortFiles ==
  { SubSeq(h, 1, len) : len \in 0..39,
      h \in { ToLeBytes(ToU64(1)) \o Ones32, ToLeBytes(U64Mixed) \o Ramp32 } }

\* the files found at build/input.bin that no program of the repository wrote
RawFiles == FullFiles \cup ShortFiles

\* the public.n and private.secret values of input.json
JsonNs == { ToU64(0), ToU64(2), U64Mixed }

JsonSecrets == { [j \in 1..len |-> 96 + j] : len \in {0, 5, 32, MaxSecretLen} }

(***************************************************************************)
(* The digests on the chains of the seeds drawn above, computed once: the  *)
(* pairs <<x, Sha256(x)>> of the first MaxIter links of each chain.        *)
(***************************************************************************)
ModelSeeds ==
  { Slice(f, 8, 40) : f \in FullFiles }
    \cup { Resize(secret, 32, 0) : secret \in JsonSecrets }
    \cup { [j \in 1..32 |-> BuildSecretByte] }

RECURSIVE ChainLinks(_, _)
ChainLinks(cnt, msg) ==
  IF cnt = 0 THEN {}
  ELSE LET digest == Sha256(msg)
       IN  {<<msg, digest>>} \cup ChainLinks(cnt - 1, digest)

Sha256Table ==
  LET links == UNION { ChainLinks(MaxIter, seed) : seed \in ModelSeeds }
  IN  [msg \in { p[1] : p \in links } |-> (CHOOSE p \in links : p[1] = msg)[2]]

NotWritten == [by |-> "none", n |-> <<>>, secret |-> <<>>]

(***************************************************************************)
(* State.                                                                  *)
(*   bin      the bytes of the file input.bin                              *)
(*   written  which program wrote bin, and from which n and secret         *)
(*   pc       the position of main() of src/src/main.rs                    *)
(*   input    main's Vec input; n, hash its locals; i the iterations of    *)
(*            the hash loop completed; k the index of the output loop      *)
(*   out      the (index, value) pairs printed so far                      *)
(*   panic    the panic that ended main, if any                            *)
(*   digests  Sha256Table, held in the state so that it is computed once   *)
(***************************************************************************)
VARIABLES digests, bin, written, pc, input, n, hash, i, k, out, panic

vars == <<digests, bin, written, pc, input, n, hash, i, k, out, panic>>

\* Hash256 is Sha256: a tabulated digest is looked up, any other is computed
Hash256(msg) ==
  IF msg \in DOMAIN digests THEN digests[msg] ELSE Sha256(msg)

mainVars == <<pc, input, n, hash, i, k, out, panic>>

Init ==
  /\ digests = Sha256Table
  /\ bin \in RawFiles
  /\ written = NotWritten
  /\ pc = "start"
  /\ input = <<>>
  /\ n = <<>>
  /\ hash = <<>>
  /\ i = 0
  /\ k = 0
  /\ out = <<>>
  /\ panic = "none"

(***************************************************************************)
(* The programs that write input.bin.  Each runs before main reads it.     *)
(***************************************************************************)
\* src/src/bin/preprocess.rs: n.to_le_bytes() then the resized secret
PreprocessBytes(jn, secret) == ToLeBytes(jn) \o Resize(secret, 32, 0)

\* prepare_input of src/src/main.rs, the same two writes
PrepareInputBytes(jn, secret) == ToLeBytes(jn) \o Resize(secret, 32, 0)

\* src/build.rs: n = 5 and secret = [42; 32]
BuildBytes == ToLeBytes(ToU64(BuildN)) \o [j \in 1..32 |-> BuildSecretByte]

Preprocess ==
  /\ pc = "start"
  /\ \E jn \in JsonNs, secret \in JsonSecrets :
       /\ bin' = PreprocessBytes(jn, secret)
       /\ written' = [by |-> "preprocess", n |-> jn, secret |-> secret]
  /\ UNCHANGED <<digests, mainVars>>

PrepareInput ==
  /\ pc = "start"
  /\ \E jn \in JsonNs, secret \in JsonSecrets :
       /\ bin' = PrepareInputBytes(jn, secret)
       /\ written' = [by |-> "prepare_input", n |-> jn, secret |-> secret]
  /\ UNCHANGED <<digests, mainVars>>

Build ==
  /\ pc = "start"
  /\ bin' = BuildBytes
  /\ written' = [by |-> "build", n |-> ToU64(BuildN),
                 secret |-> [j \in 1..32 |-> BuildSecretByte]]
  /\ UNCHANGED <<digests, mainVars>>

(***************************************************************************)
(* main() of src/src/main.rs.                                              *)
(***************************************************************************)
\* read_to_end(&mut input)
ReadInput ==
  /\ pc = "start"
  /\ input' = bin
  /\ pc' = "read"
  /\ UNCHANGED <<digests, bin, written, n, hash, i, k, out, panic>>

\* let n = u64::from_le_bytes(input[0..8].try_into().unwrap())
DecodeN ==
  /\ pc = "read"
  /\ IF SliceOk(input, 0, 8)
     THEN /\ n' = FromLeBytes(Slice(input, 0, 8))
          /\ pc' = "n_decoded"
          /\ UNCHANGED panic
     ELSE /\ pc' = "panicked"
          /\ panic' = "range end index 8 out of range for slice"
          /\ UNCHANGED n
  /\ UNCHANGED <<digests, bin, written, input, hash, i, k, out>>

\* let mut hash = [0u8; 32]; hash.copy_from_slice(&input[8..40])
DecodeSeed ==
  /\ pc = "n_decoded"
  /\ IF SliceOk(input, 8, 40)
     THEN /\ hash' = Slice(input, 8, 40)
          /\ pc' = "seeded"
          /\ UNCHANGED panic
     ELSE /\ hash' = [j \in 1..HashLen |-> 0]
          /\ pc' = "panicked"
          /\ panic' = "range end index 40 out of range for slice"
  /\ UNCHANGED <<digests, bin, written, input, n, i, k, out>>

\* fault: the inclusive range 0..=n
LoopCondInclusive(cnt, end) == ~U64Lt(end, ToU64(cnt))

\* for _ in 0..n: the range yields while its start is below n
LoopCond(cnt, end) == U64Lt(ToU64(cnt), end)

\* fault: every iteration hashes the seed instead of the previous digest
HashStepFromSeed ==
  /\ pc = "seeded"
  /\ LoopCond(i, n)
  /\ i < MaxIter
  /\ hash' = Sha256(Slice(input, 8, 40))
  /\ i' = i + 1
  /\ UNCHANGED <<digests, bin, written, pc, input, n, k, out, panic>>

\* fault: a value from outside the input (a clock reading, say) is mixed into
\* the hashed bytes
HashStepSalted ==
  /\ pc = "seeded"
  /\ LoopCond(i, n)
  /\ i < MaxIter
  /\ \E salt \in {0, 1} :
       hash' = Sha256([hash EXCEPT ![1] = (hash[1] + salt) % 256])
  /\ i' = i + 1
  /\ UNCHANGED <<digests, bin, written, pc, input, n, k, out, panic>>

\* fault: the digest is written back over the seed bytes of the input buffer
HashStepInPlace ==
  /\ pc = "seeded"
  /\ LoopCond(i, n)
  /\ i < MaxIter
  /\ hash' = Hash256(hash)
  /\ input' = SubSeq(input, 1, 8) \o Hash256(hash) \o SubSeq(input, 41, Len(input))
  /\ i' = i + 1
  /\ UNCHANGED <<digests, bin, written, pc, n, k, out, panic>>

\* one iteration: hash = Hash256(hash)
HashStep ==
  /\ pc = "seeded"
  /\ LoopCond(i, n)
  /\ i < MaxIter
  /\ hash' = Hash256(hash)
  /\ i' = i + 1
  /\ UNCHANGED <<digests, bin, written, pc, input, n, k, out, panic>>

\* fault: the loop is left only once the counter has passed n
LoopExitStrict ==
  /\ pc = "seeded"
  /\ U64Lt(n, ToU64(i))
  /\ pc' = "finalized"
  /\ UNCHANGED <<digests, bin, written, input, n, hash, i, k, out, panic>>

\* the range 0..n is exhausted
LoopExit ==
  /\ pc = "seeded"
  /\ ~LoopCond(i, n)
  /\ pc' = "finalized"
  /\ UNCHANGED <<digests, bin, written, input, n, hash, i, k, out, panic>>

\* fault: the words are printed from index 7 down to 0
EmitDescending ==
  /\ pc = "finalized"
  /\ k < OutWords
  /\ out' = Append(out, [index |-> 7 - k, val |-> ReadU32BE(hash, 7 - k)])
  /\ k' = k + 1
  /\ UNCHANGED <<digests, bin, written, pc, input, n, hash, i, panic>>

\* for i in 0..8: println!("public {}: 0x{:08x}", i, val)
Emit ==
  /\ pc = "finalized"
  /\ k < OutWords
  /\ out' = Append(out, [index |-> k, val |-> ReadU32BE(hash, k)])
  /\ k' = k + 1
  /\ UNCHANGED <<digests, bin, written, pc, input, n, hash, i, panic>>

\* main returns
Finish ==
  /\ pc = "finalized"
  /\ k = OutWords
  /\ pc' = "done"
  /\ UNCHANGED <<digests, bin, written, input, n, hash, i, k, out, panic>>

MainNext ==
  \/ ReadInput
  \/ DecodeN
  \/ DecodeSeed
  \/ HashStep
  \/ LoopExit
  \/ Emit
  \/ Finish

Next ==
  \/ Preprocess
  \/ PrepareInput
  \/ Build
  \/ MainNext

Spec == Init /\ [][Next]_vars

\* main is sequential code with no suspension point: once started it runs on
FairSpec == Spec /\ WF_vars(MainNext)

TypeOK ==
  /\ pc \in {"start", "read", "n_decoded", "seeded", "finalized", "done", "panicked"}
  /\ i \in 0..MaxIter
  /\ k \in 0..OutWords
  /\ Len(out) = k
  /\ \A j \in 1..Len(input) : input[j] \in 0..255
  /\ \A j \in 1..Len(hash) : hash[j] \in 0..255
  /\ Len(n) \in {0, 8}
  /\ Len(hash) \in {0, HashLen}

(***************************************************************************)
(* The chain as the loop of main computes it: start from the seed and hash *)
(* cnt times.                                                              *)
(***************************************************************************)
RECURSIVE HashChain(_, _)
HashChain(cnt, seed) ==
  IF cnt = 0 THEN seed ELSE HashChain(cnt - 1, Hash256(seed))

\* main has sliced both fields out of input
Decoded == pc \in {"seeded", "finalized", "done"}

(***************************************************************************)
(* Properties.                                                             *)
(***************************************************************************)

\* C1: an input shorter than 40 bytes ends the decode step in a MalformedInput
\* error found by a length check before any field is sliced out (no panic, no
\* count decoded), with no hash iteration run and no output word produced.
C1_MalformedInputBeforeSlicing ==
  (Len(input) < 40 /\ pc \notin {"start", "read"}) =>
    /\ pc = "malformed_input"
    /\ panic = "none"
    /\ n = <<>>
    /\ i = 0
    /\ out = <<>>

\* C2: an input of 40 bytes or more, whatever its content and whatever follows
\* offset 40, never fails to decode; n is the little-endian u64 of bytes [0,8)
\* (byte j has weight 256^j) and the seed is bytes [8,40) unchanged.
C2_DecodeTotalLittleEndian ==
  (Len(input) >= 40 /\ pc \notin {"start", "read"}) =>
    /\ pc # "panicked"
    /\ panic = "none"
    /\ \A j \in 0..7 : n[8 - j] = input[j + 1]
    /\ (input[4] < 128 /\ \A j \in 5..8 : input[j] = 0) =>
         n = ToU64(input[1] + 256 * input[2] + 65536 * input[3]
                   + 16777216 * input[4])
    /\ (pc = "seeded" /\ i = 0) =>
         /\ Len(hash) = 32
         /\ \A j \in 0..31 : hash[j + 1] = input[8 + j + 1]

C2_Witness ==
  /\ pc = "seeded"
  /\ i = 0
  /\ Len(input) > 40
  /\ n = ToU64(258)
  /\ \A j \in 1..32 : hash[j] = 255

\* C3: after i completed iterations the digest is Hash256 applied i times to
\* the seed, each iteration hashing the previous digest alone; the loop runs
\* n times, never more, so the digest handed to the encoder is Digest_n; and
\* HashChain(i+1, seed) = Hash256(HashChain(i, seed)).
C3_ChainComposition ==
  /\ pc = "seeded" =>
       LET d == HashChain(i, Slice(input, 8, 40))
       IN  /\ hash = d
           /\ ~U64Lt(n, ToU64(i))
           /\ i < MaxIter => HashChain(i + 1, Slice(input, 8, 40)) = Hash256(d)
  /\ (pc = "finalized" /\ k = 0) =>
       /\ ToU64(i) = n
       /\ hash = HashChain(i, Slice(input, 8, 40))

C3_Witness ==
  /\ pc = "finalized"
  /\ k = 0
  /\ i = 3
  /\ hash = <<18, 119, 19, 85, 228, 108, 212, 124, 113, 237, 23, 33, 253, 83,
              25, 179, 131, 204, 163, 161, 249, 252, 227, 170, 28, 140, 211,
              189, 55, 175, 32, 215>>

\* C4: with n = 0 the hash is never applied and the final digest is the seed
\* byte for byte; with the all-zero seed the 8 output words are all 0.
C4_ZeroIterationsIdentity ==
  (Decoded /\ n = ToU64(0)) =>
    /\ i = 0
    /\ hash = Slice(input, 8, 40)
    /\ (\A j \in 9..40 : input[j] = 0) =>
         \A j \in 1..Len(out) : out[j].val = <<0, 0>>

C4_Witness ==
  /\ pc = "done"
  /\ n = ToU64(0)
  /\ \A j \in 9..40 : input[j] = 0
  /\ out = [j \in 1..8 |-> [index |-> j - 1, val |-> <<0, 0>>]]

\* C5: output word w is the big-endian u32 of digest bytes [4w, 4w+4), and the
\* 8 words written back big-endian in index order are the 32 digest bytes.
C5_BigEndianWordsRoundTrip ==
  /\ \A j \in 1..Len(out) :
       LET w == out[j].index
       IN  /\ out[j].val[1] = hash[4 * w + 1] * 256 + hash[4 * w + 2]
           /\ out[j].val[2] = hash[4 * w + 3] * 256 + hash[4 * w + 4]
  /\ pc = "done" =>
       [b \in 1..32 |->
          LET v == out[((b - 1) \div 4) + 1].val
              r == (b - 1) % 4
          IN  IF r = 0 THEN v[1] \div 256
              ELSE IF r = 1 THEN v[1] % 256
              ELSE IF r = 2 THEN v[2] \div 256
              ELSE v[2] % 256] = hash

C5_Witness ==
  /\ pc = "done"
  /\ i = 1
  /\ out[1].val = <<44950, 4982>>
  /\ out[8].val = <<59548, 16465>>

\* C6: a run that decodes goes Start -> Seeded -> Finalized -> Done; no word
\* is printed before all n iterations are done; exactly 8 words are printed,
\* with indices 0..7 in increasing order, each once; printed words stay as
\* printed; and the digest does not change while the words are printed.
C6_SinglePathOrderedOutput ==
  /\ [](/\ out # <<>> => (pc \in {"finalized", "done"} /\ ToU64(i) = n)
        /\ \A j \in 1..Len(out) : out[j].index = j - 1
        /\ Len(out) <= 8
        /\ pc = "done" => Len(out) = 8
        /\ pc \in {"finalized", "done"} => ToU64(i) = n)
  /\ [][/\ pc' # pc =>
             <<pc, pc'>> \in { <<"start", "read">>, <<"read", "n_decoded">>,
                               <<"n_decoded", "seeded">>, <<"seeded", "finalized">>,
                               <<"finalized", "done">>, <<"read", "panicked">>,
                               <<"n_decoded", "panicked">> }
        /\ pc = "finalized" => hash' = hash
        /\ pc = "done" => out' = out
        /\ Len(out') >= Len(out) /\ SubSeq(out', 1, Len(out)) = out]_vars

C6_Witness ==
  /\ pc = "done"
  /\ i = 2
  /\ Len(out) = 8
  /\ \A j \in 1..8 : out[j].index = j - 1

\* C7: the run is a function of the input bytes alone: the decoded n and seed,
\* the digest after each iteration and the words printed are those computed
\* from input and the position reached (pc, i, k), so two runs from the same
\* bytes agree at every step and nothing else influences the result.
C7_Determinism ==
  LET seed == Slice(input, 8, 40)
  IN  /\ pc \in {"start", "read"} => (n = <<>> /\ hash = <<>> /\ out = <<>>)
      /\ pc \in {"n_decoded", "seeded", "finalized", "done"} =>
           n = [d \in 1..8 |-> input[9 - d]]
      /\ pc = "n_decoded" => (hash = <<>> /\ out = <<>>)
      /\ pc = "seeded" => (hash = HashChain(i, seed) /\ out = <<>>)
      /\ pc \in {"finalized", "done"} =>
           LET d == HashChain(i, seed)
           IN  /\ ToU64(i) = n
               /\ hash = d
               /\ out = [j \in 1..k |->
                           [index |-> j - 1,
                            val |-> <<d[4 * j - 3] * 256 + d[4 * j - 2],
                                      d[4 * j - 1] * 256 + d[4 * j]>>]]
      /\ pc = "panicked" =>
           /\ out = <<>>
           /\ panic = IF Len(input) < 8
                      THEN "range end index 8 out of range for slice"
                      ELSE "range end index 40 out of range for slice"

C7_Witness ==
  /\ pc = "done"
  /\ written.by = "preprocess"
  /\ i = 2
  /\ k = 8

\* C8: once (n, seed) is decoded the run reaches Done: the loop has no early
\* exit and no failure, it ends after exactly n iterations and the 8 words are
\* then printed (followed here for the counts n <= MaxIter).
C8_Termination ==
  /\ [](pc \in {"finalized", "done"} => ToU64(i) = n)
  /\ (pc = "seeded" /\ ~U64Lt(ToU64(MaxIter), n))
       ~> (pc = "done" /\ ToU64(i) = n /\ Len(out) = 8)

C8_Witness ==
  /\ pc = "done"
  /\ written.by = "build"
  /\ i = BuildN
  /\ Len(out) = 8

\* C9: once read, the input buffer never changes, and once decoded neither
\* does n (nor the seed, bytes [8,40) of the input); a hash iteration changes
\* the digest and nothing else of these; printing a word changes neither the
\* digest, n, nor the input.
C9_FrameAfterDecode ==
  [][/\ pc # "start" => (input' = input /\ bin' = bin)
     /\ pc \notin {"start", "read"} => n' = n
     /\ hash' # hash =>
          \/ pc = "n_decoded"
          \/ pc = "seeded" /\ pc' = "seeded" /\ i' = i + 1 /\ out' = out
     /\ out' # out =>
          (pc = "finalized" /\ hash' = hash /\ n' = n /\ input' = input /\ i' = i)]_vars

C9_Witness ==
  /\ pc = "done"
  /\ written.by = "none"
  /\ i = 3
  /\ Len(input) = 42

\* C10: a file written by preprocess, prepare_input or build.rs from a count
\* and a secret of any length is exactly 40 bytes long, decodes without a
\* panic, and decodes to the same count and to the secret padded with zero
\* bytes or truncated to 32 bytes.
C10_WritersAgreeWithDecoder ==
  written.by # "none" =>
    /\ Len(bin) = 40
    /\ pc # "panicked"
    /\ pc \in {"n_decoded", "seeded", "finalized", "done"} => n = written.n
    /\ (pc = "seeded" /\ i = 0) =>
         \A j \in 1..32 :
           hash[j] = IF j <= Len(written.secret) THEN written.secret[j] ELSE 0

C10_Witness ==
  /\ written.by = "prepare_input"
  /\ Len(written.secret) > 32
  /\ pc = "seeded"
  /\ i = 0
  /\ n = U64Mixed
  /\ hash = [j \in 1..32 |-> 96 + j]
====
